---------------------------- MODULE Spec2Model ----------------------------
(***************************************************************************)
(* ThreatVeil backend: the chat gateway with its TTL cache                 *)
(* (backend/api/chat.py) and the vendor risk aggregator                    *)
(* (backend/api/vendors.py).                                               *)
(*                                                                         *)
(* Time is the value of time.time() in whole seconds.  A message is the    *)
(* pair of the two facts the code reads from the string: its length and    *)
(* whether it contains "?".  Floats of the form k/10 are kept as the       *)
(* integer k (weights, boosts); for every severity in 0..100 the IEEE      *)
(* product severity * weight * boost truncates to the same integer as the  *)
(* exact product, so int(min(100, ...)) is integer arithmetic here.        *)
(***************************************************************************)
EXTENDS Integers, Sequences, FiniteSets, TLC

VARIABLES
    now,        \* time.time()
    ticks,      \* number of clock advances so far (bounded by MaxTicks)
    env,        \* process environment read by os.getenv / the imports
    redisUp,    \* whether the Redis server answers
    redis,      \* the Redis keyspace: key -> NoEntry or [data, exp]
    _CACHE,     \* chat.py _CACHE: key -> NoEntry or [ts, value]
    req,        \* the chat requests: position in chat_message and locals
    last,       \* the chat request that completed in the previous step, if any
    _VENDORS,   \* vendors.py _VENDORS: id -> NoVendor or Vendor
    vout,       \* what the last vendor endpoint call returned
    input,      \* argument of the pure function under test
    output      \* its result

vars == <<now, ticks, env, redisUp, redis, _CACHE, req, last, _VENDORS, vout,
          input, output>>

Min(a, b) == IF a < b THEN a ELSE b
Max(a, b) == IF a > b THEN a ELSE b

None == "None"

(***************************************************************************)
(* vendors.py: Signal, _heuristic_risk                                     *)
(***************************************************************************)

\* metadata.get(key, default) on a dict modelled as a TLA+ function
MetadataGet(metadata, key, default) ==
    IF key \in DOMAIN metadata THEN metadata[key] ELSE default

\* weight, times 10
TypeWeight(signal_type) ==
    IF signal_type \in {"github", "breach"} THEN 15
    ELSE IF signal_type \in {"cve", "cert"} THEN 12
    ELSE 10

RecencyWindow == 7 * 24 * 3600

\* variant of RecencyBoost: the window includes its end
RecencyBoostInclusive(t, s) ==
    IF (t - s.detected_at) <= RecencyWindow THEN 12 ELSE 10

\* recency_boost, times 10; t is the time.time() read of this iteration
RecencyBoost(t, s) ==
    IF (t - s.detected_at) < RecencyWindow THEN 12 ELSE 10

\* variant of Contribution: the product is not capped at 100
ContributionUncapped(t, s) ==
    (s.severity_score * TypeWeight(s.signal_type) * RecencyBoost(t, s)) \div 100

\* int(min(100, s.severity_score * weight * recency_boost))
Contribution(t, s) ==
    Min(100, (s.severity_score * TypeWeight(s.signal_type) * RecencyBoost(t, s)) \div 100)

\* f"[{s.signal_type}] {s.metadata.get('detail', '')} (sev {s.severity_score})"
\* the formatted string is kept as the sequence of its pieces
ReasonOf(s) ==
    <<"[", s.signal_type, "] ", MetadataGet(s.metadata, "detail", ""),
      " (sev ", s.severity_score, ")">>

\* variant of ClampScore: no upper clamp
ClampScoreMissing(score) == Max(0, score)

\* score = max(0, min(100, score))
ClampScore(score) == Max(0, Min(100, score))

\* variant of KeepReasons: reasons[-3:]
KeepReasonsLast(reasons) ==
    SubSeq(reasons, Max(1, Len(reasons) - 2), Len(reasons))

\* reasons = reasons[:3]
KeepReasons(reasons) == SubSeq(reasons, 1, Min(3, Len(reasons)))

\* the for loop; reads[i] is what time.time() returns in iteration i
RECURSIVE RiskLoop(_, _, _, _, _)
RiskLoop(signals, reads, i, score, reasons) ==
    IF i > Len(signals) THEN <<score, reasons>>
    ELSE RiskLoop(signals, reads, i + 1,
                  score + (Contribution(reads[i], signals[i]) \div 4),
                  Append(reasons, ReasonOf(signals[i])))

\* variant of _heuristic_risk: the signals are cut to three before the loop,
\* as the reasons are after it
_heuristic_risk_first3(signals, reads) ==
    LET r == RiskLoop(KeepReasons(signals), reads, 1, 0, <<>>)
    IN  [score |-> ClampScore(r[1]), reasons |-> KeepReasons(r[2])]

_heuristic_risk(signals, reads) ==
    LET r == RiskLoop(signals, reads, 1, 0, <<>>)
    IN  [score |-> ClampScore(r[1]), reasons |-> KeepReasons(r[2])]

\* every clock read of one call returns the same second
SameRead(signals, t) == [i \in 1..Len(signals) |-> t]

(***************************************************************************)
(* chat.py: _select_model                                                  *)
(***************************************************************************)

OPENAI_MODEL_MINI == "gpt-4o-mini"
OPENAI_MODEL_FULL == "gpt-4o"

\* variant of _select_model: len(message) < 80
_select_model_strict(message) ==
    IF message.len < 80 /\ message.qmark THEN OPENAI_MODEL_MINI
    ELSE OPENAI_MODEL_FULL

_select_model(message) ==
    IF message.len <= 80 /\ message.qmark THEN OPENAI_MODEL_MINI
    ELSE OPENAI_MODEL_FULL

(***************************************************************************)
(* chat.py: ChatRequest, the cache, the OpenAI client                      *)
(***************************************************************************)

MaxTicks == 1        \* clock advances in one run
MaxRequests == 2     \* chat requests in one run

Requests == 1..MaxRequests

\* ChatRequest.message: Field(..., min_length=1, max_length=4000)
MIN_LENGTH == 1
MAX_LENGTH == 4000

Msg(n, q) == [len |-> n, qmark |-> q]
NoMessage == Msg(-1, FALSE)

\* the messages clients send: empty, a short question, the longest legal
\* statement, and one character more
Messages == {Msg(0, FALSE), Msg(12, TRUE), Msg(MAX_LENGTH, FALSE),
             Msg(MAX_LENGTH + 1, FALSE)}

\* variant of ChatRequestValid: no min_length
ChatRequestValidNoMin(message) == message.len <= MAX_LENGTH

ChatRequestValid(message) ==
    message.len >= MIN_LENGTH /\ message.len <= MAX_LENGTH

\* int(os.getenv("GPT_CACHE_TTL_SECONDS", "3600"))
_CACHE_TTL_SECONDS == 3600

\* f"chat:{md5(message).hexdigest()}": distinct messages of the model get
\* distinct keys
_cache_key(message) == <<"chat", message>>

\* json.dumps / json.loads of the cached dict
json_dumps(value) ==
    <<"{", value.content, value.model, value.tokens, value.cost_usd, "}">>

json_loads(data) ==
    [content |-> data[2], model |-> data[3], tokens |-> data[4],
     cost_usd |-> data[5]]

NoValue == [content |-> "", model |-> "", tokens |-> 0, cost_usd |-> 0]

\* variant of DictSet: an existing key keeps its value (setdefault, SETNX)
DictSetIfAbsent(d, k, v) ==
    [x \in DOMAIN d \union {k} |-> IF x \in DOMAIN d THEN d[x] ELSE v]

\* dict assignment and dict.pop on a TLA+ function
DictSet(d, k, v) == [x \in DOMAIN d \union {k} |-> IF x = k THEN v ELSE d[x]]
DictPop(d, k) == [x \in DOMAIN d \ {k} |-> d[x]]

\* variant of Expired: the age is never looked at
ExpiredNever(t, entry) == FALSE

\* variant of Expired: the comparison is turned round
ExpiredInverted(t, entry) == t - entry.ts < _CACHE_TTL_SECONDS

\* time.time() - entry["ts"] > _CACHE_TTL_SECONDS
Expired(t, entry) == t - entry.ts > _CACHE_TTL_SECONDS

\* The outcomes of _get_cached(message) at time `now`, each
\* [raised, hung, hit, cached, found, cache]: whether the Redis call raised,
\* whether it never returned, whether a dict was returned (hit) and which, the creation time of the entry
\* the lookup examined (as a set), and _CACHE afterwards.
RedisLookups(key) ==
    IF ~redisUp
    THEN \* the server is out of reach: the call raises, or the connection
         \* stays open and silent and the call, which was given no timeout
         \* (line 43), does not return
         {[raised |-> b, hung |-> ~b, hit |-> FALSE, cached |-> NoValue,
           found |-> {}, cache |-> _CACHE] : b \in BOOLEAN}
    ELSE IF key \notin DOMAIN redis
    THEN {[raised |-> FALSE, hung |-> FALSE, hit |-> FALSE, cached |-> NoValue, found |-> {}, cache |-> _CACHE]}
    ELSE LET e == redis[key]
             T == e.exp - _CACHE_TTL_SECONDS
             hit == [raised |-> FALSE, hung |-> FALSE, hit |-> TRUE, cached |-> json_loads(e.data),
                     found |-> {T}, cache |-> _CACHE]
             miss == [raised |-> FALSE, hung |-> FALSE, hit |-> FALSE, cached |-> NoValue, found |-> {T},
                      cache |-> _CACHE]
         IN  \* the server expires the key when its TTL has run out; at the
             \* very instant either answer is possible
             IF now < e.exp THEN {hit}
             ELSE IF now = e.exp THEN {hit, miss}
             ELSE {miss}

\* variant of MemoryLookups: a hit renews the entry's timestamp
MemoryLookupsTouch(key) ==
    IF key \notin DOMAIN _CACHE
    THEN {[raised |-> FALSE, hung |-> FALSE, hit |-> FALSE, cached |-> NoValue, found |-> {}, cache |-> _CACHE]}
    ELSE LET entry == _CACHE[key]
         IN  IF Expired(now, entry)
             THEN {[raised |-> FALSE, hung |-> FALSE, hit |-> FALSE, cached |-> NoValue, found |-> {entry.ts},
                    cache |-> DictPop(_CACHE, key)]}
             ELSE {[raised |-> FALSE, hung |-> FALSE, hit |-> TRUE, cached |-> entry.value,
                    found |-> {entry.ts},
                    cache |-> DictSet(_CACHE, key, [entry EXCEPT !.ts = now])]}

MemoryLookups(key) ==
    IF key \notin DOMAIN _CACHE
    THEN {[raised |-> FALSE, hung |-> FALSE, hit |-> FALSE, cached |-> NoValue, found |-> {}, cache |-> _CACHE]}
    ELSE LET entry == _CACHE[key]
         IN  IF Expired(now, entry)
             THEN {[raised |-> FALSE, hung |-> FALSE, hit |-> FALSE, cached |-> NoValue, found |-> {entry.ts},
                    cache |-> DictPop(_CACHE, key)]}
             ELSE {[raised |-> FALSE, hung |-> FALSE, hit |-> TRUE, cached |-> entry.value,
                    found |-> {entry.ts}, cache |-> _CACHE]}

_get_cached(message) ==
    IF env.redis THEN RedisLookups(_cache_key(message))
    ELSE MemoryLookups(_cache_key(message))

\* _get_openai_client(): "" when the client is built, else the message of
\* the RuntimeError
_get_openai_client ==
    IF ~env.sdk THEN "OpenAI SDK not available. Please install 'openai' package."
    ELSE IF ~env.api_key THEN "OPENAI_API_KEY is not set."
    ELSE ""

\* what client.chat.completions.create(model=...) can do: raise, or return
\* a completion.  content None and usage None are the degenerate completion;
\* the provider reports the dated name of the model it ran.
DatedName(model) ==
    IF model = OPENAI_MODEL_MINI THEN "gpt-4o-mini-2024-07-18"
    ELSE "gpt-4o-2024-08-06"

UpstreamErrors == {"Connection error."}

Completions(model) ==
    {[ok |-> TRUE, error |-> "", content |-> None, model |-> "", total_tokens |-> 0],
     [ok |-> TRUE, error |-> "", content |-> "answer", model |-> DatedName(model),
      total_tokens |-> 120]}
    \union
    {[ok |-> FALSE, error |-> e, content |-> None, model |-> "", total_tokens |-> 0]
        : e \in UpstreamErrors}

\* "gpt-4o-mini" in model_used
IsMini(model_used) == model_used \in {"gpt-4o-mini", "gpt-4o-mini-2024-07-18"}

\* round(cost_usd, 6), in millionths of a dollar
CostUsd(model_used, tokens_total) ==
    IF IsMini(model_used) THEN (tokens_total * 375 + 500) \div 1000
    ELSE (tokens_total * 6250 + 500) \div 1000

(***************************************************************************)
(* chat.py: chat_message                                                   *)
(***************************************************************************)

\* what the client receives; status 0 while there is no answer yet
NoResult ==
    [status |-> 0, detail |-> "", response |-> "", model |-> "",
     tokens_used |-> 0, cached |-> FALSE, unhandled |-> FALSE]

\* HTTPException(status_code, detail); 422 is FastAPI's answer to a body
\* that fails ChatRequest's validation
HttpError(status, detail) ==
    [NoResult EXCEPT !.status = status, !.detail = detail]

\* an exception that leaves chat_message: the server answers 500
Unhandled == [HttpError(500, "Internal Server Error") EXCEPT !.unhandled = TRUE]

ChatResponse(response, model, tokens_used, cached) ==
    [NoResult EXCEPT !.status = 200, !.response = response, !.model = model,
                     !.tokens_used = tokens_used, !.cached = cached]

InvalidInput(result) == result.status \in {400, 422}
UpstreamFailure(result) == result.status = 500 /\ ~result.unhandled

\* a request before it arrives.  trace lists its cache reads, upstream calls
\* and cache writes in order; tLookup, found, after, upstreamError and
\* cacheError record what happened to it.
NewRequest ==
    [pc |-> "idle", message |-> NoMessage, tLookup |-> 0, found |-> {},
     after |-> {}, model |-> "", trace |-> <<>>, upstreamError |-> "",
     cacheError |-> "", result |-> NoResult]

Finish(rq, result) == [rq EXCEPT !.pc = "done", !.result = result]

Calls(rq) == Cardinality({i \in DOMAIN rq.trace : rq.trace[i] = "call"})

\* if len(req.message) > 4000
TooLong(message) == message.len > MAX_LENGTH

\* variant of OnUpstreamError: the call is made again
OnUpstreamErrorRetry(rq, e) ==
    [rq EXCEPT !.pc = "upstream", !.upstreamError = e,
               !.trace = Append(@, "call")]

\* except Exception as e: raise HTTPException(status_code=500, detail=str(e))
OnUpstreamError(rq, e) ==
    Finish([rq EXCEPT !.upstreamError = e], HttpError(500, e))

\* lines 105-123: from the cache lookup to the moment the completion
\* request is on the wire; o is the outcome of _get_cached
BeforeUpstream(rq, o) ==
    LET looked == [rq EXCEPT !.tLookup = now, !.found = o.found,
                             !.trace = Append(@, "read")]
    IN  IF o.hung
        THEN [looked EXCEPT !.pc = "blocked", !.cacheError = "redis get"]
        ELSE IF o.raised
        THEN Finish([looked EXCEPT !.cacheError = "redis get"], Unhandled)
        ELSE IF o.hit
        THEN Finish(looked, ChatResponse(o.cached.content, o.cached.model,
                                         o.cached.tokens, TRUE))
        ELSE IF TooLong(rq.message)
        THEN Finish(looked, HttpError(400, "Message too long"))
        ELSE IF _get_openai_client # ""
        THEN OnUpstreamError(looked, _get_openai_client)
        ELSE [looked EXCEPT !.pc = "upstream",
                            !.model = _select_model(rq.message),
                            !.trace = Append(@, "call")]

\* chat_message never awaits, so a server process runs it to its end before
\* it takes the next request.  _CACHE belongs to one process; a Redis
\* keyspace is shared, here by two server processes.
Processes == IF env.redis THEN 2 ELSE 1

InFlight == {p \in Requests : req[p].pc \in {"upstream", "blocked"}}

\* POST /api/v2/chat/message, up to the blocking call of the provider
chat_message(r, message) ==
    /\ req[r].pc = "idle"
    /\ \A p \in Requests : p < r => req[p].pc # "idle"
    /\ Cardinality(InFlight) < Processes
    /\ LET rq == [req[r] EXCEPT !.message = message, !.after = last]
       IN  IF ~ChatRequestValid(message)
           THEN /\ req' = [req EXCEPT ![r] = Finish(rq, HttpError(422, "validation"))]
                /\ _CACHE' = _CACHE
           ELSE \E o \in _get_cached(message) :
                    /\ req' = [req EXCEPT ![r] = BeforeUpstream(rq, o)]
                    /\ _CACHE' = o.cache
    /\ last' = {}
    /\ UNCHANGED <<now, ticks, env, redisUp, redis, _VENDORS, vout, input, output>>

\* lines 133-158: the dict that is cached for completion c
CachedValue(rq, c) ==
    LET content == IF c.content = None THEN "" ELSE c.content
        model_used == IF c.model = "" THEN rq.model ELSE c.model
    IN  [content |-> content, model |-> model_used, tokens |-> c.total_tokens,
         cost_usd |-> CostUsd(model_used, c.total_tokens)]

\* the provider answers request r with c: lines 123-169
UpstreamReturn(r, c) ==
    /\ req[r].pc = "upstream"
    /\ c \in Completions(req[r].model)
    /\ LET rq == req[r]
           value == CachedValue(rq, c)
           key == _cache_key(rq.message)
           wrote == [rq EXCEPT !.trace = Append(@, "write")]
           fresh == ChatResponse(value.content, value.model, value.tokens, FALSE)
       IN  IF ~c.ok
           THEN /\ req' = [req EXCEPT ![r] = OnUpstreamError(rq, c.error)]
                /\ UNCHANGED <<redis, _CACHE>>
                /\ last' = {}
           ELSE IF env.redis /\ ~redisUp
           THEN \* setex raises inside the try
                /\ req' = [req EXCEPT ![r] =
                             Finish([wrote EXCEPT !.cacheError = "redis setex"],
                                    HttpError(500, "redis setex"))]
                /\ UNCHANGED <<redis, _CACHE>>
                /\ last' = {}
           ELSE IF env.redis
           THEN /\ redis' = DictSet(redis, key,
                                    [data |-> json_dumps(value),
                                     exp |-> now + _CACHE_TTL_SECONDS])
                /\ req' = [req EXCEPT ![r] = Finish(wrote, fresh)]
                /\ UNCHANGED _CACHE
                /\ last' = {r}
           ELSE /\ _CACHE' = DictSet(_CACHE, key, [ts |-> now, value |-> value])
                /\ req' = [req EXCEPT ![r] = Finish(wrote, fresh)]
                /\ UNCHANGED redis
                /\ last' = {r}
    /\ UNCHANGED <<now, ticks, env, redisUp, _VENDORS, vout, input, output>>

\* the Redis server goes away or comes back
RedisFlip ==
    /\ env.redis
    /\ redisUp' = ~redisUp
    /\ last' = {}
    /\ UNCHANGED <<now, ticks, env, redis, _CACHE, req, _VENDORS, vout, input, output>>

\* the clock advances by a second, by a cache lifetime, or by just more
TickSteps == {1, _CACHE_TTL_SECONDS, _CACHE_TTL_SECONDS + 1}

Tick(d) ==
    /\ ticks < MaxTicks
    /\ now' = now + d
    /\ ticks' = ticks + 1
    /\ last' = {}
    /\ UNCHANGED <<env, redisUp, redis, _CACHE, req, _VENDORS, vout, input, output>>

NoVendors == [x \in {} |-> 0]
EmptyDict == [x \in {} |-> 0]
Idle == [fn |-> "none"]

Init ==
    /\ now = 0
    /\ ticks = 0
    /\ env \in [sdk : BOOLEAN, api_key : BOOLEAN, redis : BOOLEAN]
    /\ redisUp = TRUE
    /\ redis = EmptyDict
    /\ _CACHE = EmptyDict
    /\ req = [r \in Requests |-> NewRequest]
    /\ last = {}
    /\ _VENDORS = NoVendors
    /\ vout = Idle
    /\ input = Idle
    /\ output = Idle

Next ==
    \/ \E r \in Requests, m \in Messages : chat_message(r, m)
    \/ \E r \in Requests : \E c \in Completions(req[r].model) : UpstreamReturn(r, c)
    \/ RedisFlip
    \/ \E d \in TickSteps : Tick(d)

Spec == Init /\ [][Next]_vars

(***************************************************************************)
(* vendors.py: _seed_demo_data, list_vendors, get_vendor                   *)
(***************************************************************************)

Signal(signal_type, severity_score, metadata, detected_at) ==
    [signal_type |-> signal_type, severity_score |-> severity_score,
     metadata |-> metadata, detected_at |-> detected_at]

Detail(text) == [k \in {"detail"} |-> text]

Vendor(id, name, domain, industry_tag, signals) ==
    [id |-> id, name |-> name, domain |-> domain, industry_tag |-> industry_tag,
     risk_score |-> 0, reasons |-> <<>>, signals |-> signals]

\* the demo list built at time t
Demo(t) ==
    << Vendor("v1", "Acme Corp", "acme.example", "saas",
              << Signal("github", 70, Detail("API key exposure"), t - 3600),
                 Signal("cert", 40, Detail("cert churn"), t - 7200) >>),
       Vendor("v2", "Globex", "globex.example", "fintech",
              << Signal("cve", 65, Detail("OpenSSL CVE"), t - 10000) >>),
       Vendor("v3", "Initech", "initech.example", "infrastructure",
              << Signal("dns", 30, Detail("subdomain churn"), t - 50000) >>) >>

\* v.risk_score, v.reasons = _heuristic_risk(v.signals); the loop's clock
\* reads fall in the second in which the seeding runs
Scored(v, t) ==
    LET r == _heuristic_risk(v.signals, SameRead(v.signals, t))
    IN  [v EXCEPT !.risk_score = r.score, !.reasons = r.reasons]

\* variant of _seed_demo_data: the guard "if _VENDORS: return" is missing
_seed_demo_data_always(vendors, t) ==
    LET demo == Demo(t)
    IN  [id \in {demo[i].id : i \in DOMAIN demo} |->
            Scored(CHOOSE v \in {demo[i] : i \in DOMAIN demo} : v.id = id, t)]

\* _VENDORS after _seed_demo_data() at time t
_seed_demo_data(vendors, t) ==
    IF DOMAIN vendors # {} THEN vendors
    ELSE LET demo == Demo(t)
         IN  [id \in {demo[i].id : i \in DOMAIN demo} |->
                 Scored(CHOOSE v \in {demo[i] : i \in DOMAIN demo} : v.id = id, t)]

\* list(_VENDORS.values()): a dict keeps insertion order
VendorOrder == <<"v1", "v2", "v3">>

Values(vendors) ==
    LET ids == [i \in {j \in DOMAIN VendorOrder : VendorOrder[j] \in DOMAIN vendors}
                  |-> VendorOrder[i]]
    IN  [i \in DOMAIN ids |-> vendors[ids[i]]]

\* GET /api/v1/vendors
list_vendors ==
    /\ _VENDORS' = _seed_demo_data(_VENDORS, now)
    /\ vout' = [fn |-> "list_vendors", arg |-> "", at |-> now, status |-> 200,
                body |-> Values(_VENDORS')]
    /\ UNCHANGED <<now, ticks, env, redisUp, redis, _CACHE, req, last, input, output>>

\* GET /api/v1/vendors/{vendor_id}
get_vendor(vendor_id) ==
    /\ _VENDORS' = _seed_demo_data(_VENDORS, now)
    /\ vout' = IF vendor_id \notin DOMAIN _VENDORS'
               THEN [fn |-> "get_vendor", arg |-> vendor_id, at |-> now,
                     status |-> 404, body |-> <<>>]
               ELSE [fn |-> "get_vendor", arg |-> vendor_id, at |-> now,
                     status |-> 200, body |-> <<_VENDORS'[vendor_id]>>]
    /\ UNCHANGED <<now, ticks, env, redisUp, redis, _CACHE, req, last, input, output>>

VendorIds == {"v1", "v2", "v3", "v9"}

\* the clock advances by a second, or by the time the oldest demo signal
\* needs to become seven days old
VendorTickSteps == {1, RecencyWindow - 50000}

MaxVendorTicks == 2  \* clock advances in one run of the vendor endpoints

VendorTick(d) ==
    /\ ticks < MaxVendorTicks
    /\ now' = now + d
    /\ ticks' = ticks + 1
    /\ UNCHANGED <<env, redisUp, redis, _CACHE, req, last, _VENDORS, vout, input, output>>

VendorInit ==
    /\ now = 0
    /\ ticks = 0
    /\ env = [sdk |-> TRUE, api_key |-> TRUE, redis |-> FALSE]
    /\ redisUp = TRUE
    /\ redis = EmptyDict
    /\ _CACHE = EmptyDict
    /\ req = [r \in Requests |-> NewRequest]
    /\ last = {}
    /\ _VENDORS = NoVendors
    /\ vout = Idle
    /\ input = Idle
    /\ output = Idle

VendorNext ==
    \/ list_vendors
    \/ \E id \in VendorIds : get_vendor(id)
    \/ \E d \in VendorTickSteps : VendorTick(d)

VendorSpec == VendorInit /\ [][VendorNext]_vars

(***************************************************************************)
(* _heuristic_risk and _select_model on their own                          *)
(***************************************************************************)

MaxSignals == 5      \* longest signal list drawn from SignalPool

SignalTypes == {"github", "breach", "cve", "cert", "dns"}

\* ages, at the first clock read, on both sides of the seven-day window
Ages == {0, RecencyWindow - 1, RecencyWindow, RecencyWindow + 1}

Metadatas == {Detail("API key exposure"), [k \in {} |-> ""]}

\* every well-formed signal (severity_score: Field(ge=0, le=100)); the call
\* under test starts at time 0
Signals ==
    {Signal(ty, sev, md, 0 - age) :
        ty \in SignalTypes, sev \in 0..100, md \in Metadatas, age \in Ages}

\* the signals the longer lists are made of
SignalPool ==
    {Signal("github", 100, Detail("API key exposure"), 0 - 3600),
     Signal("breach", 70, [k \in {} |-> ""], 0 - RecencyWindow),
     Signal("cve", 65, Detail("OpenSSL CVE"), 0 - (RecencyWindow - 1)),
     Signal("cert", 100, Detail("cert churn"), 0 - (RecencyWindow + 1)),
     Signal("dns", 30, Detail("subdomain churn"), 0 - 50000)}

\* the clock reads of a call over n signals: time 0 up to iteration k, one
\* second later from then on
ClockReads(n) ==
    {[i \in 1..n |-> IF i < k THEN 0 ELSE 1] : k \in 1..(n + 1)}

\* the calls under test: one signal of any kind, or a list over SignalPool
RiskInput(signals, reads) ==
    [fn |-> "_heuristic_risk", signals |-> signals, reads |-> reads]

\* a message of up to MAX_LENGTH + 1 characters; "?" needs a character
SelectInput(n, q) == [fn |-> "_select_model", message |-> Msg(n, q)]

call_heuristic_risk ==
    /\ input.fn = "_heuristic_risk"
    /\ output = Idle
    /\ output' = [fn |-> "_heuristic_risk",
                  value |-> _heuristic_risk(input.signals, input.reads)]
    /\ UNCHANGED <<now, ticks, env, redisUp, redis, _CACHE, req, last,
                   _VENDORS, vout, input>>

call_select_model ==
    /\ input.fn = "_select_model"
    /\ output = Idle
    /\ output' = [fn |-> "_select_model", value |-> _select_model(input.message)]
    /\ UNCHANGED <<now, ticks, env, redisUp, redis, _CACHE, req, last,
                   _VENDORS, vout, input>>

FnInit ==
    /\ now = 0
    /\ ticks = 0
    /\ env = [sdk |-> TRUE, api_key |-> TRUE, redis |-> FALSE]
    /\ redisUp = TRUE
    /\ redis = EmptyDict
    /\ _CACHE = EmptyDict
    /\ req = [r \in Requests |-> NewRequest]
    /\ last = {}
    /\ _VENDORS = NoVendors
    /\ vout = Idle
    /\ \/ \E s \in Signals, rd \in ClockReads(1) : input = RiskInput(<<s>>, rd)
       \/ \E n \in 0..MaxSignals :
             \E ss \in [1..n -> SignalPool], rd \in ClockReads(n) :
                input = RiskInput(ss, rd)
       \/ \E n \in 0..(MAX_LENGTH + 1), q \in BOOLEAN :
             (q => n > 0) /\ input = SelectInput(n, q)
    /\ output = Idle

FnNext == call_heuristic_risk \/ call_select_model

FnSpec == FnInit /\ [][FnNext]_vars

(***************************************************************************)
(* Properties of the chat gateway (Spec)                                   *)
(***************************************************************************)

Arrived(r) == req[r].pc # "idle"
Done(r) == req[r].pc = "done"
Hit(r) == Done(r) /\ req[r].result.status = 200 /\ req[r].result.cached
Fresh(r) == Done(r) /\ req[r].result.status = 200 /\ ~req[r].result.cached

\* C1.  Cache idempotence: a request that arrives right after a request for
\* the same message was answered fresh and stored (no time passed, nothing
\* happened in between) is answered from the cache, with the response, model
\* and tokens_used the first answer had.
C1_CacheIdempotence ==
    \A r \in Requests : \A p \in req[r].after :
        (Arrived(r) /\ req[r].message = req[p].message)
            => /\ Hit(r)
               /\ req[r].result.response = req[p].result.response
               /\ req[r].result.model = req[p].result.model
               /\ req[r].result.tokens_used = req[p].result.tokens_used

C1_Witness ==
    \E r \in Requests : \E p \in req[r].after :
        /\ Fresh(p) /\ req[r].message = req[p].message
        /\ Hit(r) /\ req[r].result.response = "answer"

\* C2, as claimed.  Cache expiry including the boundary: a lookup of the
\* process's own cache at a time t >= T + TTL, for an entry created at T, is
\* a miss.
C2_ExpiryFromBoundary ==
    \A r \in Requests : \A T \in req[r].found :
        (~env.redis /\ Arrived(r) /\ req[r].tLookup >= T + _CACHE_TTL_SECONDS)
            => ~Hit(r)

\* C2, amended.  Cache expiry: a lookup at a time t > T + TTL, for an entry
\* created at T, is a miss, with either cache.
C2_ExpiryAfterTTL ==
    \A r \in Requests : \A T \in req[r].found :
        (Arrived(r) /\ req[r].tLookup > T + _CACHE_TTL_SECONDS) => ~Hit(r)

C2_Witness ==
    \E r \in Requests : \E T \in req[r].found :
        /\ ~env.redis /\ Arrived(r) /\ ~Hit(r)
        /\ req[r].tLookup > T + _CACHE_TTL_SECONDS
        /\ _cache_key(req[r].message) \notin DOMAIN _CACHE

\* C3.  Input bound: a request with the empty message or with a message of
\* more than 4000 characters ends in an InvalidInput error with no response,
\* and a request with a message of exactly 4000 characters does not.
C3_InputBound ==
    \A r \in Requests :
        Arrived(r) =>
            /\ (req[r].message.len = 0 \/ req[r].message.len > 4000)
                  => /\ Done(r) /\ InvalidInput(req[r].result)
                     /\ req[r].result.response = ""
                     /\ req[r].trace = <<>>
            /\ (req[r].message.len = 4000 /\ Done(r))
                  => ~InvalidInput(req[r].result)

C3_Witness ==
    /\ \E r \in Requests :
          /\ req[r].message.len = 4001
          /\ Done(r) /\ InvalidInput(req[r].result)
    /\ \E r \in Requests : req[r].message.len = 4000 /\ Fresh(r)

\* C4.  Upstream failure is surfaced and never retried: no request calls the
\* provider more than once, and a request whose client or call raised has
\* ended in the 500 error that carries the exception's message.
C4_UpstreamFailureSurfaced ==
    \A r \in Requests :
        /\ Calls(req[r]) <= 1
        /\ req[r].upstreamError # ""
              => /\ Done(r) /\ UpstreamFailure(req[r].result)
                 /\ req[r].result.detail = req[r].upstreamError

C4_Witness ==
    \E r \in Requests :
        /\ req[r].upstreamError = "Connection error."
        /\ Calls(req[r]) = 1
        /\ Done(r) /\ req[r].result.status = 500

\* C5, as claimed.  Cache unavailability is non-fatal: where the provider
\* client can be built, a request during which a cache operation failed
\* still ends with a fresh answer, unless the provider's call failed.
C5_CacheFailureNonFatal ==
    \A r \in Requests :
        (Done(r) /\ req[r].cacheError # "" /\ _get_openai_client = "")
            => (Fresh(r) \/ req[r].upstreamError # "")

(***************************************************************************)
(* Properties of _heuristic_risk and _select_model (FnSpec)                *)
(***************************************************************************)

RiskDone == output.fn = "_heuristic_risk"

\* C6.  Boundedness: the score returned lies in 0..100 and at most three
\* reasons are returned.
C6_Bounded ==
    RiskDone =>
        /\ 0 <= output.value.score /\ output.value.score <= 100
        /\ Len(output.value.reasons) <= 3

C6_Witness ==
    /\ RiskDone
    /\ Len(input.signals) = 5
    /\ \A i \in 1..5 : input.signals[i].signal_type = "github"
    /\ output.value.score = 100
    /\ Len(output.value.reasons) = 3

\* the reference formula: floor(min(100, severity * weight * recency) / 4),
\* weight 1.5, 1.2 or 1.0 and recency 1.2 or 1.0 taken as tenths
RefWeight(s) ==
    CASE s.signal_type \in {"github", "breach"} -> 15
      [] s.signal_type \in {"cve", "cert"} -> 12
      [] OTHER -> 10

RefRecency(t, s) == IF t - s.detected_at < 604800 THEN 12 ELSE 10

RefContribution(t, s) ==
    LET x100 == s.severity_score * RefWeight(s) * RefRecency(t, s)
    IN  IF x100 >= 10000 THEN 25 ELSE x100 \div 400

RECURSIVE RefSum(_, _, _)
RefSum(signals, reads, n) ==
    IF n = 0 THEN 0
    ELSE RefSum(signals, reads, n - 1) + RefContribution(reads[n], signals[n])

\* C7.  The score is min(100, sum of floor(min(100, severity * weight *
\* recency) / 4)), with recency 1.2 only for signals strictly younger than
\* seven days at the clock read of their iteration.
C7_ScoreFormula ==
    RiskDone =>
        output.value.score =
            Min(100, RefSum(input.signals, input.reads, Len(input.signals)))

C7_Witness ==
    /\ RiskDone
    /\ Len(input.signals) = 1
    /\ input.signals[1].signal_type = "cve"
    /\ input.signals[1].severity_score = 65
    /\ input.reads[1] - input.signals[1].detected_at = 604800
    /\ output.value.score = 19

RefReason(s) ==
    <<"[", s.signal_type, "] ",
      IF "detail" \in DOMAIN s.metadata THEN s.metadata["detail"] ELSE "",
      " (sev ", s.severity_score, ")">>

C9_ModelTier ==
    output.fn = "_select_model" =>
        /\ (input.message.len <= 80 /\ input.message.qmark)
              <=> output.value = "gpt-4o-mini"
        /\ ~(input.message.len <= 80 /\ input.message.qmark)
              <=> output.value = "gpt-4o"

C9_Witness ==
    /\ output.fn = "_select_model"
    /\ input.message = Msg(80, TRUE)
    /\ output.value = "gpt-4o-mini"

(***************************************************************************)
(* Properties of the vendor endpoints (VendorSpec)                         *)
(***************************************************************************)

\* C10, as claimed.  Vendor consistency: every vendor an endpoint returns
\* carries the risk_score and reasons that _heuristic_risk gives for its
\* signals at the time of the call.
C10_VendorConsistent ==
    (vout.fn # "none" /\ vout.status = 200) =>
        \A i \in DOMAIN vout.body :
            LET v == vout.body[i]
                r == _heuristic_risk(v.signals, SameRead(v.signals, vout.at))
            IN  v.risk_score = r.score /\ v.reasons = r.reasons

(***************************************************************************)
(* Further properties of the chat gateway (Spec)                           *)
(***************************************************************************)

Count(trace, what) == Cardinality({i \in DOMAIN trace : trace[i] = what})

\* C11, as claimed.  Side effects: every request makes exactly one cache
\* read; one answered from the cache makes no upstream call and no cache
\* write; one answered fresh makes one read, then one upstream call, then
\* one cache write.
C11_OneReadAlways ==
    \A r \in Requests :
        Arrived(r) =>
            /\ Count(req[r].trace, "read") = 1
            /\ Hit(r) => req[r].trace = <<"read">>
            /\ Fresh(r) => req[r].trace = <<"read", "call", "write">>

\* C11, amended.  The same for the requests whose message has 1..4000
\* characters; a request rejected for its length makes no cache read, no
\* upstream call and no cache write.
C11_SideEffects ==
    \A r \in Requests :
        Arrived(r) =>
            /\ (1 <= req[r].message.len /\ req[r].message.len <= 4000)
                  => /\ Count(req[r].trace, "read") = 1
                     /\ req[r].trace[1] = "read"
            /\ ~(1 <= req[r].message.len /\ req[r].message.len <= 4000)
                  => req[r].trace = <<>>
            /\ Hit(r) => req[r].trace = <<"read">>
            /\ Fresh(r) => req[r].trace = <<"read", "call", "write">>

C11_Witness ==
    \E r, p \in Requests :
        /\ Fresh(p) /\ req[p].trace = <<"read", "call", "write">>
        /\ Hit(r) /\ req[r].trace = <<"read">>

\* what a request answered fresh handed to _set_cached, less the cost
Answered(r) ==
    [content |-> req[r].result.response, model |-> req[r].result.model,
     tokens |-> req[r].result.tokens_used]

\* the keys of the cache store in use and what it holds for a key
StoreKeys == IF env.redis THEN DOMAIN redis ELSE DOMAIN _CACHE

Stored(key) ==
    LET value == IF env.redis THEN json_loads(redis[key].data)
                 ELSE _CACHE[key].value
    IN  [content |-> value.content, model |-> value.model,
         tokens |-> value.tokens]

\* two requests for one message that both looked the key up before either
\* had stored
Raced(r, p) ==
    /\ r # p /\ Fresh(r) /\ Fresh(p)
    /\ req[r].message = req[p].message
    /\ req[r].found = {} /\ req[p].found = {}

\* C12.  Requests for one message are not coalesced and the last writer
\* wins: right after a request stored its answer the cache holds exactly
\* that answer, whatever was stored for the key before; and when two
\* requests for one message both missed and both called the provider, the
\* cache afterwards holds the whole answer of one of them, never none and
\* never a mix.
C12_LastWriterWins ==
    /\ \A r \in last :
          /\ Fresh(r)
          /\ _cache_key(req[r].message) \in StoreKeys
          /\ Stored(_cache_key(req[r].message)) = Answered(r)
    /\ \A r, p \in Requests :
          (/\ Raced(r, p)
           /\ \A o \in Requests \ {r, p} :
                 ~(Fresh(o) /\ req[o].message = req[r].message))
          => /\ Calls(req[r]) = 1 /\ Calls(req[p]) = 1
             /\ _cache_key(req[r].message) \in StoreKeys
             /\ Stored(_cache_key(req[r].message)) \in {Answered(r), Answered(p)}

\* both missed, both called, they were answered differently, and the one
\* that stored second is the one the cache holds
C12_Witness ==
    \E r, p \in Requests :
        /\ Raced(r, p)
        /\ Answered(r) # Answered(p)
        /\ last = {p}
        /\ Stored(_cache_key(req[p].message)) = Answered(p)

\* C13.  No request hangs: every request that has arrived is answered, or
\* is waiting for the provider and ends as soon as the provider answers or
\* the call fails; none is left waiting for a reply that never comes.
C13_NoHang ==
    \A r \in Requests :
        Arrived(r) =>
            \/ Done(r)
            \/ ENABLED (\E c \in Completions(req[r].model) : UpstreamReturn(r, c))

\* every stored entry is the answer of a request for that key which missed,
\* called the provider once and was answered
C15_EntriesFromFreshAnswers ==
    \A k \in StoreKeys :
        \E r \in Requests :
            /\ Fresh(r)
            /\ _cache_key(req[r].message) = k
            /\ req[r].trace = <<"read", "call", "write">>
            /\ Stored(k) = Answered(r)

\* request r stores its fresh answer in this step, and nothing else changes
\* in the store
StoresFresh(r) ==
    LET k == _cache_key(req[r].message)
    IN  /\ req[r].pc = "upstream" /\ req'[r].pc = "done"
        /\ req'[r].result.status = 200 /\ ~req'[r].result.cached
        /\ IF env.redis
           THEN /\ _CACHE' = _CACHE
                /\ DOMAIN redis' = DOMAIN redis \union {k}
                /\ \A x \in DOMAIN redis \ {k} : redis'[x] = redis[x]
           ELSE /\ redis' = redis
                /\ DOMAIN _CACHE' = DOMAIN _CACHE \union {k}
                /\ \A x \in DOMAIN _CACHE \ {k} : _CACHE'[x] = _CACHE[x]

\* request r looks its key up in this step, finds the entry older than the
\* TTL and drops it, and nothing else changes in the store
EvictsOwnExpired(r) ==
    LET k == _cache_key(req'[r].message)
    IN  /\ req[r].pc = "idle" /\ req'[r].pc # "idle"
        /\ redis' = redis
        /\ k \in DOMAIN _CACHE
        /\ now - _CACHE[k].ts > 3600
        /\ DOMAIN _CACHE' = DOMAIN _CACHE \ {k}
        /\ \A x \in DOMAIN _CACHE' : _CACHE'[x] = _CACHE[x]

C15_StoreStep ==
    (redis' # redis \/ _CACHE' # _CACHE)
        => \E r \in Requests : StoresFresh(r) \/ EvictsOwnExpired(r)

\* C15.  Cache entries are created only by successful model calls: every
\* stored entry is the answer of a request that missed and was answered by
\* the provider, and the store changes only when such a request stores its
\* answer or when a lookup drops the expired entry of its own key; so a
\* request that ends in an error leaves the entries as they were, apart from
\* that eviction.
C15_OnlySuccessfulCallsStore ==
    []C15_EntriesFromFreshAnswers /\ [][C15_StoreStep]_vars

\* a request found the entry of its key expired, dropped it, and then failed
\* at the provider: the store is left without the entry and with no new one
C15_Witness ==
    \E r \in Requests :
        /\ Done(r) /\ UpstreamFailure(req[r].result)
        /\ req[r].upstreamError # ""
        /\ req[r].found # {}
        /\ ~env.redis
        /\ _CACHE = EmptyDict

(***************************************************************************)
(* Further properties of _heuristic_risk (FnSpec)                          *)
(***************************************************************************)

\* C16.  Per-signal dampening: a signal adds at most 25, so n signals score
\* at most 25 * n: one signal never scores above 25, fewer than four never
\* reach 100; a github signal of severity 100 detected at the moment of the
\* call scores exactly 25, with its own reason as the only one.
C16_Dampened ==
    RiskDone =>
        LET n == Len(input.signals)
            score == output.value.score
        IN  /\ score <= 25 * n
            /\ n = 1 => score <= 25
            /\ n < 4 => score < 100
            /\ (/\ n = 1
                /\ input.signals[1].signal_type = "github"
                /\ input.signals[1].severity_score = 100
                /\ input.signals[1].detected_at = input.reads[1])
               => /\ score = 25
                  /\ Len(output.value.reasons) = 1
                  /\ output.value.reasons[1][2] = "github"
                  /\ output.value.reasons[1][6] = 100

C16_Witness ==
    /\ RiskDone
    /\ input.signals = <<Signal("github", 100, Detail("API key exposure"), 0)>>
    /\ input.reads = <<0>>
    /\ output.value.score = 25
    /\ output.value.reasons =
          << <<"[", "github", "] ", "API key exposure", " (sev ", 100, ")">> >>

(***************************************************************************)
(* Frame of the cache lookup (Spec)                                        *)
(***************************************************************************)

\* request r performs its cache lookup in this step
LooksUp(r) == req[r].pc = "idle" /\ req'[r].pc # "idle" /\ req'[r].trace # <<>>

\* request r is answered from the cache in this step
HitStep(r) ==
    /\ req[r].pc = "idle" /\ req'[r].pc = "done"
    /\ req'[r].result.status = 200 /\ req'[r].result.cached

\* d and e hold the same entries, the one of key k aside
SameButFor(d, e, k) ==
    /\ DOMAIN d \ {k} = DOMAIN e \ {k}
    /\ \A x \in DOMAIN d \ {k} : d[x] = e[x]

C17_LookupStep ==
    /\ \A r \in Requests :
          HitStep(r) => _CACHE' = _CACHE /\ redis' = redis
    /\ \A k \in DOMAIN _CACHE :
          (k \notin DOMAIN _CACHE' \/ _CACHE'[k] # _CACHE[k])
          => \E r \in Requests :
                /\ _cache_key(req'[r].message) = k
                /\ \/ /\ LooksUp(r)
                      /\ now - _CACHE[k].ts > 3600
                      /\ k \notin DOMAIN _CACHE'
                   \/ /\ req[r].pc = "upstream" /\ req'[r].pc = "done"
                      /\ req'[r].result.status = 200
                      /\ k \in DOMAIN _CACHE' /\ _CACHE'[k].ts = now
    /\ \A r \in Requests :
          LooksUp(r) =>
              LET k == _cache_key(req'[r].message)
              IN  /\ SameButFor(_CACHE, _CACHE', k)
                  /\ DOMAIN _CACHE' \subseteq DOMAIN _CACHE
                  /\ redis' = redis

\* C17.  The TTL runs from creation and expiry is passive: a cache hit leaves
\* the entry and its timestamp as they were; an entry of the process's cache
\* goes only when a lookup of its own key finds it older than the TTL, and
\* changes only when a store for its key overwrites it; a lookup neither
\* adds an entry nor touches the entry of another key.
C17_PassiveExpiry == [][C17_LookupStep]_vars

\* an entry created at T was hit at a later time and still carries T
C17_Witness ==
    \E r \in Requests :
        /\ Hit(r) /\ ~env.redis
        /\ \E T \in req[r].found :
              /\ req[r].tLookup > T
              /\ _cache_key(req[r].message) \in DOMAIN _CACHE
              /\ _CACHE[_cache_key(req[r].message)].ts = T

(***************************************************************************)
(* Frame of the vendor endpoints (VendorSpec)                              *)
(***************************************************************************)

DemoIds == {"v1", "v2", "v3"}

C18_Seeded == vout.fn # "none" => DOMAIN _VENDORS = DemoIds

C18_Frame ==
    /\ DOMAIN _VENDORS # {} => _VENDORS' = _VENDORS
    /\ vout' # vout =>
          /\ DOMAIN _VENDORS' = DemoIds
          /\ vout'.status = 404
                <=> (vout'.fn = "get_vendor" /\ vout'.arg \notin DemoIds)

\* C18.  The vendor collection is written only by seeding, and seeding
\* happens once: the first call of either endpoint fills the collection with
\* the three demo vendors, and from then on no call, in any order, get_vendor
\* of an unknown id (answered 404) included, changes the collection or any
\* vendor's signals, risk_score or reasons.
C18_SeedOnce == []C18_Seeded /\ [][C18_Frame]_vars

\* the collection was seeded at an earlier time, and a later get_vendor of
\* an unknown id was answered 404 and left the first seeding in place
C18_Witness ==
    /\ vout.fn = "get_vendor" /\ vout.status = 404 /\ vout.arg = "v9"
    /\ DOMAIN _VENDORS = DemoIds
    /\ _VENDORS["v1"].signals[1].detected_at < vout.at - 3600

(***************************************************************************)
(* The cache and the length check (Spec)                                   *)
(***************************************************************************)

InBounds(message) == 1 <= message.len /\ message.len <= 4000

\* C19.  The cache lookup cannot bypass the length check: neither store ever
\* holds an entry for a message of no characters or of more than 4000, and a
\* request with such a message is rejected without being answered from the
\* cache, without an upstream call and without a cache write.
C19_NoInvalidCached ==
    /\ \A k \in DOMAIN _CACHE \union DOMAIN redis : InBounds(k[2])
    /\ \A r \in Requests :
          (Arrived(r) /\ ~InBounds(req[r].message)) =>
              /\ Done(r)
              /\ InvalidInput(req[r].result)
              /\ ~req[r].result.cached
              /\ Count(req[r].trace, "call") = 0
              /\ Count(req[r].trace, "write") = 0

\* a message of 4000 characters is in the cache, and a later request of 4001
\* was rejected with the cache untouched by it
C19_Witness ==
    \E r, p \in Requests :
        /\ p < r
        /\ Fresh(p) /\ req[p].message.len = 4000
        /\ _cache_key(req[p].message) \in StoreKeys
        /\ Done(r) /\ req[r].message.len = 4001
        /\ InvalidInput(req[r].result)
        /\ req[r].trace = <<>>

(***************************************************************************)
(* Order and growth of the input of _heuristic_risk (FnSpec)               *)
(***************************************************************************)

\* signals with the entries at i and i + 1 exchanged
Swapped(signals, i) ==
    [j \in DOMAIN signals |->
        IF j = i THEN signals[i + 1]
        ELSE IF j = i + 1 THEN signals[i]
        ELSE signals[j]]

\* the times at which every clock read of the call under test returned t
FixedTimes == {t \in {0, 1} : input.reads = SameRead(input.signals, t)}

ScoreAt(signals, t) == _heuristic_risk(signals, SameRead(signals, t)).score

\* C20.  At a fixed time the score does not depend on the order of the
\* signals (exchanging two neighbours, from which every permutation is
\* made, leaves it as it is) and appending a signal never lowers it.
C20_OrderFreeMonotone ==
    RiskDone =>
        \A t \in FixedTimes :
            /\ \A i \in 1..(Len(input.signals) - 1) :
                  ScoreAt(Swapped(input.signals, i), t) = output.value.score
            /\ \A s \in SignalPool :
                  ScoreAt(Append(input.signals, s), t) >= output.value.score

\* four signals of different weight at one time: exchanging the third and
\* the fourth changes the reasons and not the score, and a fifth raises it
C20_Witness ==
    /\ RiskDone
    /\ Len(input.signals) = 4
    /\ input.reads = SameRead(input.signals, 0)
    /\ Contribution(0, input.signals[3]) \div 4 # Contribution(0, input.signals[4]) \div 4
    /\ LET other == _heuristic_risk(Swapped(input.signals, 3), input.reads)
       IN  /\ other.score = output.value.score
           /\ other.reasons # output.value.reasons
    /\ \E s \in SignalPool :
          ScoreAt(Append(input.signals, s), 0) > output.value.score

=============================================================================
